---- MODULE Spec2Model ----
(***************************************************************************)
(* State-machine model of src/prompts/parallel-orchestrator.py: the two    *)
(* phase slide-deck generator.  main() runs the master planning call,      *)
(* parses the planning output into slide briefs, fans the briefs out to a  *)
(* ThreadPoolExecutor, collects the futures with as_completed, sorts the   *)
(* results, assembles the final document and saves the statistics.         *)
(*                                                                         *)
(* Text is modelled as a sequence of tokens <<kind, n>>: a token is one    *)
(* piece of text the regular expressions of the program tell apart (a      *)
(* heading they look for, or text they do not look at).  A Python dict is  *)
(* a record; a key the code leaves out is a field the record lacks.        *)
(***************************************************************************)
EXTENDS Naturals, Integers, Sequences, FiniteSets, TLC

\* ---------------------------------------------------------------- bounds
MaxArtifactLen == 2     \* tokens in the planning output
MaxSlideNum == 2        \* slide numbers a brief header may declare: 1..MaxSlideNum
MaxWorkers == 2         \* max_workers ranges over 1..MaxWorkers
MaxBatchLen == 3        \* tokens in a planning output whose batch is run in one step
MaxUnits == 5           \* briefs numbered 1..n, n <= MaxUnits, run in one step
MaxTextLen == 4         \* tokens in a planning output given to the text functions alone
MaxPoolUnits == 2       \* briefs given to the pool when it is run alone
MaxPoolWorkers == 2     \* max_workers of the pool when it is run alone
MaxParts == 3           \* parts in a response whose parts are joined alone
MaxResults == 2         \* entries in a batch result given to the assembler alone
MaxLines == 3           \* lines of the event stream the backend sends

\* ---------------------------------------------------------------- tokens
SlideBriefHeader(n) == <<"## SLIDE n BRIEF:", n>>
NextStepsHeader == <<"## NEXT STEPS", 0>>
ExecSummaryHeader == <<"## EXECUTIVE SUMMARY", 0>>
BrandResearchHeader == <<"## BRAND RESEARCH", 0>>
DeckArchitectureHeader == <<"## DECK ARCHITECTURE", 0>>
DesignSystemHeader == <<"## DESIGN SYSTEM", 0>>
SlideBriefsHeader == <<"## SLIDE BRIEFS", 0>>
PlainText == <<"text", 0>>
NL == <<"\\n", 0>>
None == <<"None", 0>>

\* r'## SLIDE \d+ BRIEF:'
IsSlideBriefHeader(t) == t[1] = "## SLIDE n BRIEF:"

\* str.strip(): the text without its leading and trailing whitespace.
RECURSIVE LStrip(_)
LStrip(text) ==
    IF text # <<>> /\ Head(text) = NL THEN LStrip(Tail(text)) ELSE text

RECURSIVE RStrip(_)
RStrip(text) ==
    IF text # <<>> /\ text[Len(text)] = NL
    THEN RStrip(SubSeq(text, 1, Len(text) - 1)) ELSE text

Strip(text) == LStrip(RStrip(text))

\* $ without re.MULTILINE: the end of the text, or just before a newline that
\* is the last character of the text.
AtDollar(text, q) ==
    \/ q > Len(text)
    \/ q = Len(text) /\ text[q] = NL

\* ------------------------------------------------------ parse_slide_briefs
\* Mutant: the lookahead has no alternative for the next brief header.
BriefLookaheadWithoutHeader(text, q) ==
    \/ AtDollar(text, q)
    \/ text[q] = NextStepsHeader

\* Mutant: the lookahead has no alternative for the next-steps heading.
BriefLookaheadWithoutNextSteps(text, q) ==
    \/ AtDollar(text, q)
    \/ IsSlideBriefHeader(text[q])

\* The lookahead (?=## SLIDE \d+ BRIEF:|## NEXT STEPS|$) at position q.
BriefLookahead(text, q) ==
    \/ AtDollar(text, q)
    \/ IsSlideBriefHeader(text[q])
    \/ text[q] = NextStepsHeader

\* .*? : the first position from q on at which the lookahead succeeds.
RECURSIVE BriefSpanEnd(_, _)
BriefSpanEnd(text, q) ==
    IF BriefLookahead(text, q) THEN q ELSE BriefSpanEnd(text, q + 1)

\* re.findall(slide_pattern, master_output, re.DOTALL): the non-overlapping
\* matches, scanning from position p.
RECURSIVE FindAllBriefs(_, _)
FindAllBriefs(text, p) ==
    IF p > Len(text) THEN <<>>
    ELSE IF IsSlideBriefHeader(text[p])
         THEN LET e == BriefSpanEnd(text, p + 1)
              IN  <<SubSeq(text, p, e - 1)>> \o FindAllBriefs(text, e)
         ELSE FindAllBriefs(text, p + 1)

\* re.search(r'## SLIDE (\d+) BRIEF:', match): the first header of the match,
\* 0 when there is none.
RECURSIVE FirstHeaderAt(_, _)
FirstHeaderAt(match, p) ==
    IF p > Len(match) THEN 0
    ELSE IF IsSlideBriefHeader(match[p]) THEN p
    ELSE FirstHeaderAt(match, p + 1)

\* Mutant: a brief is numbered by its place in the list, not by its header.
BriefsNumberedByPosition(matches) ==
    [k \in 1..Len(matches) |-> [slide_number |-> k, brief |-> Strip(matches[k])]]

RECURSIVE BriefsOfMatches(_)
BriefsOfMatches(matches) ==
    IF matches = <<>> THEN <<>>
    ELSE LET match == Head(matches)
             h == FirstHeaderAt(match, 1)
         IN  (IF h # 0
              THEN <<[slide_number |-> match[h][2], brief |-> Strip(match)]>>
              ELSE <<>>) \o BriefsOfMatches(Tail(matches))

\* Mutant: the briefs are returned in the order of their numbers.
RECURSIVE BriefsFromNumber(_, _)
BriefsFromNumber(briefs, n) ==
    IF \A k \in 1..Len(briefs) : briefs[k].slide_number < n THEN <<>>
    ELSE SelectSeq(briefs, LAMBDA b : b.slide_number = n)
         \o BriefsFromNumber(briefs, n + 1)

parse_slide_briefs_in_numeric_order(master_output) ==
    BriefsFromNumber(BriefsOfMatches(FindAllBriefs(master_output, 1)), 0)

parse_slide_briefs(master_output) ==
    BriefsOfMatches(FindAllBriefs(master_output, 1))

\* -------------------------------------------------- section extraction
\* re.search(marker + r'(.*?)(?=stop|$)', ..., re.DOTALL): group(1) of the
\* first occurrence of marker, up to the first token whose kind is in stops or
\* the end of the text, stripped; <<>> ("") when the marker does not occur.
\* (assemble_final_document writes \Z for $: the stripped group is the same.)
RECURSIVE FirstIndexOf(_, _, _)
FirstIndexOf(text, marker, p) ==
    IF p > Len(text) THEN 0
    ELSE IF text[p] = marker THEN p
    ELSE FirstIndexOf(text, marker, p + 1)

RECURSIVE SpanEnd(_, _, _)
SpanEnd(text, stops, q) ==
    IF AtDollar(text, q) \/ text[q][1] \in stops THEN q ELSE SpanEnd(text, stops, q + 1)

Section(text, marker, stops) ==
    LET m == FirstIndexOf(text, marker, 1)
    IN  IF m = 0 THEN <<>>
        ELSE Strip(SubSeq(text, m + 1, SpanEnd(text, stops, m + 1) - 1))

\* The kinds of token in which "##" occurs: the lookahead (?=##|\Z).
AnyHashes ==
    {"## SLIDE n BRIEF:", "## NEXT STEPS", "## EXECUTIVE SUMMARY",
     "## BRAND RESEARCH", "## DECK ARCHITECTURE", "## DESIGN SYSTEM",
     "## SLIDE BRIEFS"}

\* Mutant: a heading is written only when its section is not empty.
FrameOmittingEmptySections(brand_section, design_section) ==
    (IF brand_section = <<>> THEN <<>>
     ELSE <<<<"## BRAND GUIDELINES", 0>>, NL, NL>> \o brand_section)
    \o <<NL, NL, <<"---", 0>>, NL, NL>>
    \o (IF design_section = <<>> THEN <<>>
        ELSE <<<<"## DESIGN SYSTEM", 0>>, NL, NL>> \o design_section)
    \o <<NL>>

\* The f-string of lines 142-150.
Frame(brand_section, design_section) ==
    <<<<"## BRAND GUIDELINES", 0>>, NL, NL>> \o brand_section
    \o <<NL, NL, <<"---", 0>>, NL, NL, <<"## DESIGN SYSTEM", 0>>, NL, NL>>
    \o design_section \o <<NL>>

extract_brand_and_design_system(master_output) ==
    Frame(Section(master_output, BrandResearchHeader, {"## DECK ARCHITECTURE"}),
          Section(master_output, DesignSystemHeader, {"## SLIDE BRIEFS"}))

\* ------------------------------------------------------- run_slide_agent
\* What the outside world does to one unit's worker: load_prompt raises
\* while the prompt is built, before the try block is entered; the generation
\* call raises; or the call returns a response, with or without a candidate.
\* (genai.Client(api_key=API_KEY) at line 178 is the constructor call that
\* run_master_planning made at line 58 with the same argument: a run that
\* reached phase 2 has seen it return.)
\* A part is [thought, text]; text is the tokens of part.text.
LoadPromptError == [kind |-> "load_prompt_error", candidates |-> 0, parts |-> <<>>]
ApiError == [kind |-> "api_error", candidates |-> 0, parts |-> <<>>]
NoCandidates == [kind |-> "response", candidates |-> 0, parts |-> <<>>]
Response(parts) == [kind |-> "response", candidates |-> 1, parts |-> parts]
NotCalled == [kind |-> "not_called", candidates |-> 0, parts |-> <<>>]

AnswerPart(i) == [thought |-> FALSE, text |-> <<<<"slide spec", i>>>>]
ThoughtPart(i) == [thought |-> TRUE, text |-> <<<<"thinking", i>>>>]

\* The replies unit i (the i-th brief submitted) may get.
Replies(i) ==
    {LoadPromptError, ApiError, NoCandidates,
     Response(<<AnswerPart(i)>>), Response(<<ThoughtPart(i)>>)}

\* str(e) of the exception a reply makes unit i raise.
ErrorText(reply, i) ==
    CASE reply.kind = "load_prompt_error" -> <<"No such file: parallel-slide-agent-prompt.md", i>>
      [] reply.kind = "api_error" -> <<"generate_content failed", i>>
      [] OTHER -> <<"list index out of range", i>>

\* Mutant: the text of every part is joined, thoughts included.
RECURSIVE JoinAllParts(_)
JoinAllParts(parts) ==
    IF parts = <<>> THEN <<>>
    ELSE Head(parts).text
         \o (IF Len(parts) > 1 THEN <<<<"\\n\\n", 0>>>> ELSE <<>>)
         \o JoinAllParts(Tail(parts))

\* '\n\n'.join of the text of the parts that are not thoughts.
ParagraphBreak == <<"\\n\\n", 0>>
RECURSIVE JoinAnswerParts(_)
JoinAnswerParts(parts) ==
    IF parts = <<>> THEN <<>>
    ELSE LET rest == JoinAnswerParts(Tail(parts))
             answers_follow == \E k \in 2..Len(parts) : ~parts[k].thought
         IN  IF Head(parts).thought THEN rest
             ELSE Head(parts).text
                  \o (IF answers_follow THEN <<ParagraphBreak>> ELSE <<>>) \o rest

\* The exceptions the try block of run_slide_agent turns into a result.
RaisesInsideTry(reply) ==
    \/ reply.kind = "api_error"
    \/ reply.kind = "response" /\ reply.candidates = 0

\* The value of the unit's future: the dict run_slide_agent returns, or the
\* exception it raises.  elapsed is time.time() - start_time.
run_slide_agent(slide_number, reply, i, elapsed) ==
    IF reply.kind = "load_prompt_error"
    THEN [raised |-> TRUE, exception |-> ErrorText(reply, i)]
    ELSE IF RaisesInsideTry(reply)
    THEN [raised |-> FALSE,
          result |-> [slide_number |-> slide_number, output |-> <<None>>,
                      elapsed_time |-> elapsed, success |-> FALSE,
                      error |-> ErrorText(reply, i)]]
    ELSE [raised |-> FALSE,
          result |-> [slide_number |-> slide_number,
                      output |-> JoinAnswerParts(reply.parts),
                      elapsed_time |-> elapsed, success |-> TRUE]]

\* Whether the worker reaches client.models.generate_content.
CallsService(reply) == reply.kind \in {"api_error", "response"}

\* What load_prompt('parallel-slide-agent-prompt.md') returns.
SlideTemplate == <<"parallel-slide-agent-prompt.md", 0>>

\* The f-string of lines 161-176.
slide_prompt(slide_number, slide_brief, brand_and_design) ==
    <<<<"# SLIDE SPECIFICATION TASK", 0>>, NL, NL,
      <<"You are generating the specification for SLIDE n.", slide_number>>, NL, NL,
      <<"---", 0>>, NL, NL>>
    \o brand_and_design \o <<NL, NL, <<"---", 0>>, NL, NL>>
    \o slide_brief \o <<NL, NL, <<"---", 0>>, NL, NL, SlideTemplate, NL>>

\* contents=slide_prompt of the call at line 183: the prompt the service is
\* sent, <<>> when the worker raised before it was built.
PromptSent(reply, args) ==
    IF CallsService(reply)
    THEN slide_prompt(args.slide_number, args.slide_brief, args.brand_and_design)
    ELSE <<>>

\* Mutant: a call that raised is made a second time.
ServiceCallsWithRetry(reply) ==
    IF reply.kind = "api_error" THEN 2 ELSE IF CallsService(reply) THEN 1 ELSE 0

\* The number of generate_content calls one run of run_slide_agent makes: the
\* single call at line 183, not in a loop.
ServiceCalls(reply) == IF CallsService(reply) THEN 1 ELSE 0

\* ------------------------------------------- run_parallel_slide_agents
\* results.sort(key=lambda x: x['slide_number']): list.sort is stable.
RECURSIVE InsertBySlideNumber(_, _)
InsertBySlideNumber(sorted, r) ==
    IF sorted = <<>> THEN <<r>>
    ELSE IF r.slide_number < Head(sorted).slide_number THEN <<r>> \o sorted
    ELSE <<Head(sorted)>> \o InsertBySlideNumber(Tail(sorted), r)

RECURSIVE SortFrom(_, _)
SortFrom(sorted, rest) ==
    IF rest = <<>> THEN sorted
    ELSE SortFrom(InsertBySlideNumber(sorted, Head(rest)), Tail(rest))

\* Mutant: the results are returned in completion order.
SortOmitted(results) == results

SortBySlideNumber(results) == SortFrom(<<>>, results)

\* A future the executor has not run yet, is running, or has finished.
PendingFuture == [state |-> "PENDING", reply |-> NotCalled, outcome |-> [raised |-> FALSE]]

\* Mutant: every work item is given the brief of the last unit.
SubmittedFutureLastBrief(slide_briefs, i, brand_and_design) ==
    [state |-> "PENDING", reply |-> NotCalled, outcome |-> [raised |-> FALSE],
     args |-> [slide_number |-> slide_briefs[i].slide_number,
               slide_brief |-> slide_briefs[Len(slide_briefs)].brief,
               brand_and_design |-> brand_and_design],
     prompt |-> <<>>]

\* executor.submit(run_slide_agent, brief['slide_number'], brief['brief'],
\* brand_and_design): the future of brief i with the arguments the call binds.
SubmittedFuture(slide_briefs, i, brand_and_design) ==
    [state |-> PendingFuture.state, reply |-> PendingFuture.reply,
     outcome |-> PendingFuture.outcome,
     args |-> [slide_number |-> slide_briefs[i].slide_number,
               slide_brief |-> slide_briefs[i].brief,
               brand_and_design |-> brand_and_design],
     prompt |-> <<>>]

NumRunning(future) ==
    Cardinality({i \in 1..Len(future) : future[i].state = "RUNNING"})

\* Mutant: a thread per submitted item, whatever max_workers is.
WorkerAlwaysAvailable(future, max_workers) == TRUE

\* Mutant: the last of the max_workers threads is never used.
WorkerAvailableOffByOne(future, max_workers) == NumRunning(future) < max_workers - 1

\* ThreadPoolExecutor(max_workers=max_workers): a work item is taken off the
\* queue only by one of at most max_workers threads, each running one item.
WorkerAvailable(future, max_workers) == NumRunning(future) < max_workers

\* Mutant: an item is taken only when the items before it have finished.
HeadOfQueueAfterPredecessors(future, i) ==
    /\ future[i].state = "PENDING"
    /\ \A j \in 1..(i - 1) : future[j].state = "FINISHED"

\* The work queue is first in, first out: item i is taken when every item
\* submitted before it has been taken.
HeadOfQueue(future, i) ==
    /\ future[i].state = "PENDING"
    /\ \A j \in 1..(i - 1) : future[j].state # "PENDING"

\* Mutant: a failed unit cancels the units still queued (fail-fast): their
\* futures finish without the unit being run.
SetOutcomeCancelQueued(future, i, reply, outcome) ==
    [j \in 1..Len(future) |->
        IF j = i
        THEN [state |-> "FINISHED", reply |-> reply, outcome |-> outcome,
              args |-> future[j].args, prompt |-> PromptSent(reply, future[j].args)]
        ELSE IF future[j].state = "PENDING"
                /\ (IF outcome.raised THEN TRUE ELSE ~outcome.result.success)
        THEN [state |-> "FINISHED", reply |-> NotCalled,
              outcome |-> [raised |-> TRUE, exception |-> <<"CancelledError", j>>],
              args |-> future[j].args, prompt |-> <<>>]
        ELSE future[j]]

\* The worker stores what run_slide_agent returned or raised in the future.
SetOutcome(future, i, reply, outcome) ==
    [future EXCEPT ![i] = [state |-> "FINISHED", reply |-> reply, outcome |-> outcome,
                           args |-> @.args, prompt |-> PromptSent(reply, @.args)]]

\* Mutant: the loop has no handler, future.result() raises into the caller.
DispatcherCatchesNothing(exception) == FALSE

\* except Exception as e: the handler of the dispatcher's loop takes every
\* exception a worker raises.
DispatcherCatches(exception) == TRUE

\* Mutant: the handler's dict leaves the error text out.
ExceptionResultWithoutError(slide_num, exception) ==
    [slide_number |-> slide_num, success |-> FALSE]

\* The dict the dispatcher builds for a future whose result() raised.
ExceptionResult(slide_num, exception) ==
    [slide_number |-> slide_num, success |-> FALSE, error |-> exception]

\* Mutant: the collection is keyed by slide number, a later result with the
\* same number overwrites the earlier one.
RECURSIVE AppendResultKeyed(_, _)
AppendResultKeyed(results, result) ==
    IF results = <<>> THEN <<result>>
    ELSE IF Head(results).slide_number = result.slide_number
    THEN <<result>> \o Tail(results)
    ELSE <<Head(results)>> \o AppendResultKeyed(Tail(results), result)

\* results.append(...)
AppendResult(results, result) == Append(results, result)

\* Mutant: the loop also ends at the first failed unit it sees.
AsCompletedFailFast(future, yielded, n) ==
    /\ Len(future) = n
    /\ \/ Len(yielded) = n
       \/ \E k \in 1..Len(yielded) :
             LET o == future[yielded[k]].outcome
             IN  IF o.raised THEN TRUE ELSE ~o.result.success

\* as_completed has yielded every future: the for loop ends.
AsCompletedExhausted(future, yielded, n) ==
    /\ Len(future) = n
    /\ Len(yielded) = n

\* ------------------------------------------------ assemble_final_document
\* Mutant: a failed unit is left out of the document.
RenderResultSkipsFailed(result) ==
    IF result.success THEN <<NL>> \o result.output \o <<NL, NL>> ELSE <<>>

\* The text the loop appends for one result.
RenderResult(result) ==
    IF result.success
    THEN <<NL>> \o result.output \o <<NL, NL>>
    ELSE <<NL, <<"### SLIDE n: ERROR", result.slide_number>>, NL, NL,
           <<"**Error:**", 0>>,
           (IF "error" \in DOMAIN result THEN result.error
            ELSE <<"Failed to generate", 0>>),
           NL, NL, <<"---", 0>>, NL, NL>>

\* Mutant: the loop ends at the first failed result.
RECURSIVE RenderResultsUntilFailure(_)
RenderResultsUntilFailure(slide_results) ==
    IF slide_results = <<>> THEN <<>>
    ELSE IF ~Head(slide_results).success THEN <<>>
    ELSE RenderResult(Head(slide_results))
         \o RenderResultsUntilFailure(Tail(slide_results))

RECURSIVE RenderResults(_)
RenderResults(slide_results) ==
    IF slide_results = <<>> THEN <<>>
    ELSE RenderResult(Head(slide_results)) \o RenderResults(Tail(slide_results))

DocumentTitle == <<"# COMPLETE SLIDE DECK SPECIFICATION", 0>>
Rule == <<"---", 0>>
DetailedSpecsHeader == <<"## DETAILED SLIDE SPECIFICATIONS", 0>>
ProductionNotesHeader == <<"## PRODUCTION NOTES", 0>>
GeneratedWith == <<"**Generated with Gemini 2.5 Pro Parallel Architecture**", 0>>

\* Mutant: a section the planning output lacks is left out with its heading.
assemble_without_empty_sections(master_output, slide_results) ==
    LET exec_summary == Section(master_output, ExecSummaryHeader, AnyHashes)
        brand_research == Section(master_output, BrandResearchHeader, {"## DECK ARCHITECTURE"})
        architecture == Section(master_output, DeckArchitectureHeader, {"## DESIGN SYSTEM"})
        design_system == Section(master_output, DesignSystemHeader, {"## SLIDE BRIEFS"})
    IN  <<DocumentTitle>>
        \o (IF exec_summary = <<>> THEN <<>>
            ELSE <<Rule, ExecSummaryHeader>> \o exec_summary)
        \o (IF brand_research = <<>> THEN <<>>
            ELSE <<Rule, BrandResearchHeader>> \o brand_research)
        \o (IF architecture = <<>> THEN <<>>
            ELSE <<Rule, DeckArchitectureHeader>> \o architecture)
        \o (IF design_system = <<>> THEN <<>>
            ELSE <<Rule, DesignSystemHeader>> \o design_system)
        \o <<Rule, DetailedSpecsHeader>>
        \o RenderResults(slide_results)
        \o <<NL, Rule, ProductionNotesHeader, Rule, GeneratedWith>>

assemble_final_document(master_output, slide_results) ==
    LET exec_summary == Section(master_output, ExecSummaryHeader, AnyHashes)
        brand_research == Section(master_output, BrandResearchHeader, {"## DECK ARCHITECTURE"})
        architecture == Section(master_output, DeckArchitectureHeader, {"## DESIGN SYSTEM"})
        design_system == Section(master_output, DesignSystemHeader, {"## SLIDE BRIEFS"})
    IN  <<DocumentTitle, Rule, ExecSummaryHeader>> \o exec_summary
        \o <<Rule, BrandResearchHeader>> \o brand_research
        \o <<Rule, DeckArchitectureHeader>> \o architecture
        \o <<Rule, DesignSystemHeader>> \o design_system
        \o <<Rule, DetailedSpecsHeader>>
        \o RenderResults(slide_results)
        \o <<NL, Rule, ProductionNotesHeader, Rule, GeneratedWith>>

\* ------------------------------------------------------------ save_results
\* The metadata dict reads r['elapsed_time'] of every result and takes max()
\* of the elapsed times: a result without the key raises KeyError, an empty
\* list ValueError.
SaveRaises(slide_results) ==
    IF \E k \in 1..Len(slide_results) : "elapsed_time" \notin DOMAIN slide_results[k]
    THEN "KeyError"
    ELSE IF slide_results = <<>> THEN "ValueError"
    ELSE "none"

\* Mutant: a result without an output counts as failed and every other one
\* as successful, whatever its success flag says.
CountWhereByOutput(slide_results, flag) ==
    Cardinality({k \in 1..Len(slide_results) :
                    (slide_results[k].output # <<>>) = flag})

CountWhere(slide_results, flag) ==
    Cardinality({k \in 1..Len(slide_results) : slide_results[k].success = flag})

Metadata(slide_results) ==
    [total_slides |-> Len(slide_results),
     successful_slides |-> CountWhere(slide_results, TRUE),
     failed_slides |-> CountWhere(slide_results, FALSE)]

\* --------------------------------------------------------------------- main
\* Mutant: main does not check the list of briefs.
NoBriefsUnchecked(slide_briefs) == FALSE

\* if not slide_briefs: return
NoBriefs(slide_briefs) == slide_briefs = <<>>

\* The planning outputs: the token sequences of at most MaxArtifactLen tokens.
ArtifactTokens ==
    {SlideBriefHeader(n) : n \in 1..MaxSlideNum} \cup {NextStepsHeader, PlainText}

RECURSIVE SeqsUpTo(_, _)
SeqsUpTo(S, n) ==
    IF n = 0 THEN {<<>>}
    ELSE LET shorter == SeqsUpTo(S, n - 1)
         IN  shorter \cup {Append(q, t) : q \in shorter, t \in S}

Artifacts == SeqsUpTo(ArtifactTokens, MaxArtifactLen)

ElapsedTimes == {1}

\* create_presentation has not been called.
NotReturned == [raised |-> FALSE, value |-> [status |-> "none"]]

VARIABLES
    pc,               \* where main is
    master_output,    \* master_result['output']
    slide_briefs,     \* parse_slide_briefs' list
    brand_and_design, \* the shared context
    max_workers,      \* the max_workers argument of run_parallel_slide_agents
    future,           \* the futures, in submission order
    yielded,          \* the futures as_completed has yielded, in that order
    results,          \* the results list as the loop appended to it
    slide_results,    \* the list run_parallel_slide_agents returned
    final_document,   \* <<>> until assembled
    metadata,         \* <<>> until save_results built the dict
    exception,        \* the exception that ended the run, "none" otherwise
    p2_calls,         \* generate_content calls made by slide agents
    response,         \* the response whose parts are being joined, when kept
    result            \* what create_presentation returned or raised

vars == <<pc, master_output, slide_briefs, brand_and_design, max_workers, future,
          yielded, results, slide_results, final_document, metadata, exception,
          p2_calls, response, result>>

Init ==
    /\ pc = "run_master_planning"
    /\ master_output = <<>>
    /\ slide_briefs = <<>>
    /\ brand_and_design = <<>>
    /\ max_workers = 0
    /\ future = <<>>
    /\ yielded = <<>>
    /\ results = <<>>
    /\ slide_results = <<>>
    /\ final_document = <<>>
    /\ metadata = <<>>
    /\ exception = "none"
    /\ p2_calls = 0
    /\ response = NotCalled
    /\ result = NotReturned

\* run_master_planning raises (load_prompt, the call, or response.candidates[0]):
\* nothing in main catches it.
MasterPlanningRaises ==
    /\ pc = "run_master_planning"
    /\ pc' = "raised"
    /\ exception' = "phase1"
    /\ UNCHANGED <<master_output, slide_briefs, brand_and_design, max_workers, future,
                   yielded, results, slide_results, final_document, metadata, p2_calls,
                   response, result>>

MasterPlanningReturns ==
    /\ pc = "run_master_planning"
    /\ \E output \in Artifacts : master_output' = output
    /\ pc' = "parse_slide_briefs"
    /\ UNCHANGED <<slide_briefs, brand_and_design, max_workers, future, yielded,
                   results, slide_results, final_document, metadata, exception, p2_calls,
                   response, result>>

ParseSlideBriefs ==
    /\ pc = "parse_slide_briefs"
    /\ slide_briefs' = parse_slide_briefs(master_output)
    /\ pc' = "check_briefs"
    /\ UNCHANGED <<master_output, brand_and_design, max_workers, future, yielded,
                   results, slide_results, final_document, metadata, exception, p2_calls,
                   response, result>>

ReturnNoBriefs ==
    /\ pc = "check_briefs"
    /\ NoBriefs(slide_briefs)
    /\ pc' = "returned_no_briefs"
    /\ UNCHANGED <<master_output, slide_briefs, brand_and_design, max_workers, future,
                   yielded, results, slide_results, final_document, metadata,
                   exception, p2_calls, response, result>>

\* extract_brand_and_design_system, then the call of run_parallel_slide_agents
\* up to the creation of the executor.  main passes max_workers=5; the model
\* takes the argument from 1..MaxWorkers.
EnterPhase2 ==
    /\ pc = "check_briefs"
    /\ ~NoBriefs(slide_briefs)
    /\ brand_and_design' = extract_brand_and_design_system(master_output)
    /\ \E w \in 1..MaxWorkers : max_workers' = w
    /\ pc' = "executor"
    /\ UNCHANGED <<master_output, slide_briefs, future, yielded, results,
                   slide_results, final_document, metadata, exception, p2_calls,
                   response, result>>

\* executor.submit of the next brief.
Submit ==
    /\ pc = "executor"
    /\ Len(future) < Len(slide_briefs)
    /\ future' = Append(future, SubmittedFuture(slide_briefs, Len(future) + 1,
                                                brand_and_design))
    /\ UNCHANGED <<pc, master_output, slide_briefs, brand_and_design, max_workers,
                   yielded, results, slide_results, final_document, metadata,
                   exception, p2_calls, response, result>>

\* A pool thread takes item i off the queue and enters run_slide_agent.
Start(i) ==
    /\ pc = "executor"
    /\ HeadOfQueue(future, i)
    /\ WorkerAvailable(future, max_workers)
    /\ future' = [future EXCEPT ![i].state = "RUNNING"]
    /\ UNCHANGED <<pc, master_output, slide_briefs, brand_and_design, max_workers,
                   yielded, results, slide_results, final_document, metadata,
                   exception, p2_calls, response, result>>

\* run_slide_agent of item i runs to its end.
Finish(i) ==
    /\ pc = "executor"
    /\ future[i].state = "RUNNING"
    /\ \E reply \in Replies(i), elapsed \in ElapsedTimes :
          /\ future' = SetOutcome(future, i, reply,
                          run_slide_agent(future[i].args.slide_number, reply, i, elapsed))
          /\ p2_calls' = p2_calls + ServiceCalls(reply)
    /\ UNCHANGED <<pc, master_output, slide_briefs, brand_and_design, max_workers,
                   yielded, results, slide_results, final_document, metadata, exception,
                   response, result>>

\* One iteration of "for future in as_completed(future_to_slide)".
Collect(i) ==
    /\ pc = "executor"
    /\ Len(future) = Len(slide_briefs)
    /\ future[i].state = "FINISHED"
    /\ \A k \in 1..Len(yielded) : yielded[k] # i
    /\ yielded' = Append(yielded, i)
    /\ LET slide_num == slide_briefs[i].slide_number
           outcome == future[i].outcome
       IN  IF ~outcome.raised
           THEN /\ results' = AppendResult(results, outcome.result)
                /\ UNCHANGED <<pc, exception, response, result>>
           ELSE IF DispatcherCatches(outcome.exception)
           THEN /\ results' = AppendResult(results,
                                  ExceptionResult(slide_num, outcome.exception))
                /\ UNCHANGED <<pc, exception, response, result>>
           ELSE /\ pc' = "raised"
                /\ exception' = "unit"
                /\ UNCHANGED results
    /\ UNCHANGED <<master_output, slide_briefs, brand_and_design, max_workers, future,
                   slide_results, final_document, metadata, p2_calls, response,
                   result>>

\* The loop and the with block end; the results are sorted and returned.
ReturnResults ==
    /\ pc = "executor"
    /\ AsCompletedExhausted(future, yielded, Len(slide_briefs))
    /\ slide_results' = SortBySlideNumber(results)
    /\ pc' = "assemble_final_document"
    /\ UNCHANGED <<master_output, slide_briefs, brand_and_design, max_workers, future,
                   yielded, results, final_document, metadata, exception, p2_calls,
                   response, result>>

\* Mutant: the document is assembled from the results collected so far, while
\* the pool is still at work.
AssembleWithoutWaiting ==
    /\ pc = "executor"
    /\ future # <<>>
    /\ final_document' = assemble_final_document(master_output, SortBySlideNumber(results))
    /\ pc' = "save_results"
    /\ UNCHANGED <<master_output, slide_briefs, brand_and_design, max_workers, future,
                   yielded, results, slide_results, metadata, exception, p2_calls,
                   response, result>>

Assemble ==
    /\ pc = "assemble_final_document"
    /\ final_document' = assemble_final_document(master_output, slide_results)
    /\ pc' = "save_results"
    /\ UNCHANGED <<master_output, slide_briefs, brand_and_design, max_workers, future,
                   yielded, results, slide_results, metadata, exception, p2_calls,
                   response, result>>

SaveResults ==
    /\ pc = "save_results"
    /\ IF SaveRaises(slide_results) = "none"
       THEN /\ metadata' = <<Metadata(slide_results)>>
            /\ pc' = "done"
            /\ UNCHANGED exception
       ELSE /\ pc' = "raised"
            /\ exception' = SaveRaises(slide_results)
            /\ UNCHANGED metadata
    /\ UNCHANGED <<master_output, slide_briefs, brand_and_design, max_workers, future,
                   yielded, results, slide_results, final_document, p2_calls,
                   response, result>>

Next ==
    \/ MasterPlanningRaises
    \/ MasterPlanningReturns
    \/ ParseSlideBriefs
    \/ ReturnNoBriefs
    \/ EnterPhase2
    \/ Submit
    \/ \E i \in 1..Len(future) : Start(i)
    \/ \E i \in 1..Len(future) : Finish(i)
    \/ \E i \in 1..Len(future) : Collect(i)
    \/ ReturnResults
    \/ Assemble
    \/ SaveResults

Spec == Init /\ [][Next]_vars

\* ------------------------------------------- the batch run in one step
\* run_parallel_slide_agents as one step, for planning outputs with more
\* briefs than Spec interleaves: every unit gets a reply, the futures are
\* yielded in submission order or in the reverse order, and the loop, the
\* sort and the return run as in Collect and ReturnResults.
MainMaxWorkers == 5

NumberedBriefs(n) == [i \in 1..n |-> SlideBriefHeader(i)]

BatchArtifacts ==
    SeqsUpTo(ArtifactTokens, MaxBatchLen) \cup {NumberedBriefs(n) : n \in 1..MaxUnits}

RECURSIVE ReplyVectors(_)
ReplyVectors(n) ==
    IF n = 0 THEN {<<>>}
    ELSE {Append(v, r) : v \in ReplyVectors(n - 1), r \in Replies(n)}

CompletionOrders(n) == {[k \in 1..n |-> k], [k \in 1..n |-> n + 1 - k]}

\* The futures once every worker has run to its end.
FinishedFutures(briefs, replies, elapsed) ==
    [i \in 1..Len(briefs) |->
        LET args == SubmittedFuture(briefs, i, brand_and_design).args
        IN  [state |-> "FINISHED", reply |-> replies[i],
             outcome |-> run_slide_agent(args.slide_number, replies[i], i, elapsed),
             args |-> args, prompt |-> PromptSent(replies[i], args)]]

\* The dict one iteration of the loop appends for a finished future.
ResultOfFuture(slide_num, outcome) ==
    IF ~outcome.raised THEN outcome.result
    ELSE ExceptionResult(slide_num, outcome.exception)

\* The results list after the first k futures of the order were yielded.
RECURSIVE CollectInOrder(_, _, _, _)
CollectInOrder(briefs, futures, order, k) ==
    IF k = 0 THEN <<>>
    ELSE AppendResult(CollectInOrder(briefs, futures, order, k - 1),
                      ResultOfFuture(briefs[order[k]].slide_number,
                                     futures[order[k]].outcome))

RECURSIVE TotalServiceCalls(_)
TotalServiceCalls(replies) ==
    IF replies = <<>> THEN 0
    ELSE ServiceCalls(Head(replies)) + TotalServiceCalls(Tail(replies))

InitBatch ==
    /\ pc = "parse_slide_briefs"
    /\ master_output \in BatchArtifacts
    /\ slide_briefs = <<>>
    /\ brand_and_design = <<>>
    /\ max_workers = 0
    /\ future = <<>>
    /\ yielded = <<>>
    /\ results = <<>>
    /\ slide_results = <<>>
    /\ final_document = <<>>
    /\ metadata = <<>>
    /\ exception = "none"
    /\ p2_calls = 0
    /\ response = NotCalled
    /\ result = NotReturned

\* Lines 491-494 of main as written: max_workers=5.
EnterPhase2FromMain ==
    /\ pc = "check_briefs"
    /\ ~NoBriefs(slide_briefs)
    /\ brand_and_design' = extract_brand_and_design_system(master_output)
    /\ max_workers' = MainMaxWorkers
    /\ pc' = "executor"
    /\ UNCHANGED <<master_output, slide_briefs, future, yielded, results,
                   slide_results, final_document, metadata, exception, p2_calls,
                   response, result>>

RunParallelSlideAgents ==
    /\ pc = "executor"
    /\ future = <<>>
    /\ \E replies \in ReplyVectors(Len(slide_briefs)),
          order \in CompletionOrders(Len(slide_briefs)),
          elapsed \in ElapsedTimes :
          LET futures == FinishedFutures(slide_briefs, replies, elapsed)
              collected == CollectInOrder(slide_briefs, futures, order, Len(order))
          IN  /\ future' = futures
              /\ yielded' = order
              /\ results' = collected
              /\ slide_results' = SortBySlideNumber(collected)
              /\ p2_calls' = TotalServiceCalls(replies)
    /\ pc' = "assemble_final_document"
    /\ UNCHANGED <<master_output, slide_briefs, brand_and_design, max_workers,
                   final_document, metadata, exception, response, result>>

NextBatch ==
    \/ ParseSlideBriefs
    \/ ReturnNoBriefs
    \/ EnterPhase2FromMain
    \/ RunParallelSlideAgents
    \/ Assemble
    \/ SaveResults

SpecBatch == InitBatch /\ [][NextBatch]_vars

\* ------------------------------------------------------ the pool alone
\* run_parallel_slide_agents and the assembly from the state main is in at
\* line 494: the briefs and the shared context of a planning output made of
\* brief headers numbered 1..n, ascending or descending, and any max_workers.
DescendingBriefs(n) == [k \in 1..n |-> SlideBriefHeader(n + 1 - k)]

PoolArtifacts ==
    {NumberedBriefs(n) : n \in 1..MaxPoolUnits}
    \cup {DescendingBriefs(n) : n \in 1..MaxPoolUnits}

InitPool ==
    /\ pc = "executor"
    /\ master_output \in PoolArtifacts
    /\ slide_briefs = parse_slide_briefs(master_output)
    /\ brand_and_design = extract_brand_and_design_system(master_output)
    /\ max_workers \in 1..MaxPoolWorkers
    /\ future = <<>>
    /\ yielded = <<>>
    /\ results = <<>>
    /\ slide_results = <<>>
    /\ final_document = <<>>
    /\ metadata = <<>>
    /\ exception = "none"
    /\ p2_calls = 0
    /\ response = NotCalled
    /\ result = NotReturned

NextPool ==
    \/ Submit
    \/ \E i \in 1..Len(future) : Start(i)
    \/ \E i \in 1..Len(future) : Finish(i)
    \/ \E i \in 1..Len(future) : Collect(i)
    \/ ReturnResults
    \/ Assemble

\* The main thread runs on (the comprehension at lines 236-244, the loop at
\* 247, the return); an idle pool thread takes the item at the head of the
\* queue; a generation call returns or raises.
FairPool ==
    /\ WF_vars(Submit)
    /\ \A i \in 1..MaxPoolUnits :
          /\ WF_vars(i \in 1..Len(future) /\ Start(i))
          /\ WF_vars(i \in 1..Len(future) /\ Finish(i))
          /\ WF_vars(i \in 1..Len(future) /\ Collect(i))
    /\ WF_vars(ReturnResults)
    /\ WF_vars(Assemble)

SpecPool == InitPool /\ [][NextPool]_vars /\ FairPool

\* ------------------------------------------ the joining of parts alone
\* The part loops of run_master_planning (lines 76-87) and run_slide_agent
\* (lines 196-202) applied to every response of at most MaxParts parts, each
\* an answer or a thought.
PartKinds == {AnswerPart(1), AnswerPart(2), ThoughtPart(1)}

InitParts ==
    /\ pc = "response"
    /\ response \in {Response(parts) : parts \in SeqsUpTo(PartKinds, MaxParts)}
    /\ master_output = <<>>
    /\ slide_briefs = <<>>
    /\ brand_and_design = <<>>
    /\ max_workers = 0
    /\ future = <<>>
    /\ yielded = <<>>
    /\ results = <<>>
    /\ slide_results = <<>>
    /\ final_document = <<>>
    /\ metadata = <<>>
    /\ exception = "none"
    /\ p2_calls = 0
    /\ result = NotReturned

\* run_master_planning from the response of its call to its return value.
MasterPlanningJoins ==
    /\ pc = "response"
    /\ master_output' = JoinAnswerParts(response.parts)
    /\ pc' = "master_planned"
    /\ UNCHANGED <<slide_briefs, brand_and_design, max_workers, future, yielded,
                   results, slide_results, final_document, metadata, exception,
                   p2_calls, response, result>>

\* run_slide_agent from the same response to the dict it returns.
SlideAgentJoins ==
    /\ pc = "response"
    /\ \E n \in 1..MaxSlideNum, elapsed \in ElapsedTimes :
          results' = <<run_slide_agent(n, response, 1, elapsed).result>>
    /\ pc' = "slide_returned"
    /\ UNCHANGED <<master_output, slide_briefs, brand_and_design, max_workers, future,
                   yielded, slide_results, final_document, metadata, exception,
                   p2_calls, response, result>>

NextParts ==
    \/ MasterPlanningJoins
    \/ SlideAgentJoins

SpecParts == InitParts /\ [][NextParts]_vars

\* ------------------------------------------------ the assembler alone
\* assemble_final_document applied to planning outputs that hold any of the
\* four sections in any order, each heading followed by a text of its own, and
\* to every sorted list of at most MaxResults results a unit can end with,
\* their slide numbers 1 or 3.
SectionHeaders ==
    {ExecSummaryHeader, BrandResearchHeader, DeckArchitectureHeader, DesignSystemHeader}

SectionText(header) == <<"text of", header[1]>>

RECURSIVE SectionsInOrder(_)
SectionsInOrder(headers) ==
    IF headers = <<>> THEN <<>>
    ELSE <<Head(headers), NL, SectionText(Head(headers)), NL>>
         \o SectionsInOrder(Tail(headers))

DocArtifacts ==
    {SectionsInOrder(headers) :
        headers \in {h \in SeqsUpTo(SectionHeaders, Cardinality(SectionHeaders)) :
                        \A j, k \in 1..Len(h) : j # k => h[j] # h[k]}}

ResultNumbers == {1, 3}

PossibleResults ==
    {ResultOfFuture(n, run_slide_agent(n, reply, n, elapsed)) :
        n \in ResultNumbers, reply \in Replies(1), elapsed \in ElapsedTimes}

ResultLists ==
    {rs \in SeqsUpTo(PossibleResults, MaxResults) :
        \A k \in 1..(Len(rs) - 1) : rs[k].slide_number <= rs[k + 1].slide_number}

InitAssemble ==
    /\ pc = "assemble_final_document"
    /\ master_output \in DocArtifacts
    /\ slide_results \in ResultLists
    /\ slide_briefs = <<>>
    /\ brand_and_design = <<>>
    /\ max_workers = 0
    /\ future = <<>>
    /\ yielded = <<>>
    /\ results = <<>>
    /\ final_document = <<>>
    /\ metadata = <<>>
    /\ exception = "none"
    /\ p2_calls = 0
    /\ response = NotCalled
    /\ result = NotReturned

NextAssemble == Assemble

SpecAssemble == InitAssemble /\ [][NextAssemble]_vars

\* ------------------------------------------- the text functions alone
\* parse_slide_briefs and extract_brand_and_design_system are functions of
\* the planning output only; each is applied to every text over the headings
\* the two patterns mention, plain text and newlines.
TextTokens ==
    {SlideBriefHeader(n) : n \in 1..MaxSlideNum}
    \cup {NextStepsHeader, BrandResearchHeader, DeckArchitectureHeader,
          DesignSystemHeader, SlideBriefsHeader, PlainText, NL}

TextArtifacts == SeqsUpTo(TextTokens, MaxTextLen)

InitText ==
    /\ pc = "text"
    /\ master_output \in TextArtifacts
    /\ slide_briefs = <<>>
    /\ brand_and_design = <<>>
    /\ max_workers = 0
    /\ future = <<>>
    /\ yielded = <<>>
    /\ results = <<>>
    /\ slide_results = <<>>
    /\ final_document = <<>>
    /\ metadata = <<>>
    /\ exception = "none"
    /\ p2_calls = 0
    /\ response = NotCalled
    /\ result = NotReturned

CallParseSlideBriefs ==
    /\ pc = "text"
    /\ slide_briefs' = parse_slide_briefs(master_output)
    /\ pc' = "parsed"
    /\ UNCHANGED <<master_output, brand_and_design, max_workers, future, yielded,
                   results, slide_results, final_document, metadata, exception,
                   p2_calls, response, result>>

CallExtractBrandAndDesignSystem ==
    /\ pc = "text"
    /\ brand_and_design' = extract_brand_and_design_system(master_output)
    /\ pc' = "extracted"
    /\ UNCHANGED <<master_output, slide_briefs, max_workers, future, yielded,
                   results, slide_results, final_document, metadata, exception,
                   p2_calls, response, result>>

NextText ==
    \/ CallParseSlideBriefs
    \/ CallExtractBrandAndDesignSystem

SpecText == InitText /\ [][NextText]_vars

\* ---------------------------------------------------- create_presentation
\* src/deckr_adk_agent/agent.py.  A JSON object of the stream is the keys the
\* function reads: 'response' (AbsentKey when the object lacks it), 'metadata'
\* (absent, an object with totalExecutionTime, or a value that is no object)
\* and whether it has any other key.  A JSON value is an object, a number or
\* null; a data line may also hold text that is not JSON.
AbsentKey == <<"absent", 0>>
AbsentMetadata == [type |-> "absent", totalExecutionTime |-> 0]
MetadataObject(t) == [type |-> "dict", totalExecutionTime |-> t]
MetadataNumber == [type |-> "int", totalExecutionTime |-> 0]

EmptyObject == [response |-> AbsentKey, metadata |-> AbsentMetadata, other |-> FALSE]
Presentation(n) ==
    [response |-> <<"presentation", n>>, metadata |-> MetadataObject(n), other |-> FALSE]
TitleOnly == [response |-> AbsentKey, metadata |-> AbsentMetadata, other |-> TRUE]
BadMetadata ==
    [response |-> <<"presentation", 0>>, metadata |-> MetadataNumber, other |-> FALSE]

JsonObject(object) == [json |-> TRUE, type |-> "dict", object |-> object]
JsonNumber == [json |-> TRUE, type |-> "int", object |-> EmptyObject]
JsonNull == [json |-> TRUE, type |-> "null", object |-> EmptyObject]
NotJson == [json |-> FALSE, type |-> "text", object |-> EmptyObject]

Payloads ==
    {NotJson, JsonNull, JsonNumber, JsonObject(EmptyObject), JsonObject(TitleOnly),
     JsonObject(BadMetadata), JsonObject(Presentation(1)), JsonObject(Presentation(2))}

\* bool(value): an object with a key, a number other than 0; None is false.
Truthy(value) ==
    \/ value.type = "int"
    \/ value.type = "dict" /\ value.object # EmptyObject

\* The lines response.iter_lines() yields.
EmptyLine == [kind |-> "empty", type |-> "", payload |-> NotJson]
UndecodableLine == [kind |-> "undecodable", type |-> "", payload |-> NotJson]
OtherLine == [kind |-> "other", type |-> "", payload |-> NotJson]
EventLine(t) == [kind |-> "event", type |-> t, payload |-> NotJson]
DataLine(payload) == [kind |-> "data", type |-> "", payload |-> payload]

StreamLines ==
    {EmptyLine, UndecodableLine, OtherLine}
    \cup {EventLine(t) : t \in {"thinking", "tool_call", "complete"}}
    \cup {DataLine(payload) : payload \in Payloads}

\* What the backend does to the request: requests.post raises, or returns a
\* response with a status code; a 200 response streams lines, and the
\* connection may break after them (iter_lines raises) or, for another
\* status, while response.text reads the body.
PostRaises(exc) == [kind |-> "raises", exc |-> exc, status_code |-> 0, lines |-> <<>>,
                    broken |-> FALSE]
HttpResponse(status_code, lines, broken) ==
    [kind |-> "http", exc |-> "none", status_code |-> status_code, lines |-> lines,
     broken |-> broken]

BackendBehaviours ==
    {PostRaises(exc) : exc \in {"ConnectionError", "Timeout", "RequestException"}}
    \cup {HttpResponse(500, <<>>, broken) : broken \in BOOLEAN}
    \cup {HttpResponse(200, lines, broken) :
             lines \in SeqsUpTo(StreamLines, MaxLines), broken \in BOOLEAN}

\* The locals of the loop at lines 65-99; exc is the exception that left it.
Unbound == "<unbound>"
LoopStart ==
    [event_type |-> Unbound, events |-> <<>>, thinking_steps |-> 0, tool_calls |-> 0,
     final_response |-> JsonNull, exc |-> "none"]

\* The statements under json.loads for a data line whose text is JSON (lines
\* 85-96): event_type is read first; data.get needs an object.
HandleData(st, data) ==
    IF st.event_type = Unbound THEN [st EXCEPT !.exc = "UnboundLocalError"]
    ELSE LET appended == [st EXCEPT !.events = Append(@, [type |-> st.event_type,
                                                          data |-> data])]
         IN  IF st.event_type = "thinking"
             THEN IF data.type # "dict" THEN [appended EXCEPT !.exc = "AttributeError"]
                  ELSE [appended EXCEPT !.thinking_steps = @ + 1]
             ELSE IF st.event_type = "tool_call"
             THEN IF data.type # "dict" THEN [appended EXCEPT !.exc = "AttributeError"]
                  ELSE [appended EXCEPT !.tool_calls = @ + 1]
             ELSE IF st.event_type = "complete"
             THEN [appended EXCEPT !.final_response = data]
             ELSE appended

\* One iteration of the loop at line 72.
HandleLine(st, line) ==
    IF line.kind = "empty" THEN st
    ELSE IF line.kind = "undecodable" THEN [st EXCEPT !.exc = "UnicodeDecodeError"]
    ELSE IF line.kind = "event" THEN [st EXCEPT !.event_type = line.type]
    ELSE IF line.kind = "data"
    THEN IF ~line.payload.json THEN st ELSE HandleData(st, line.payload)
    ELSE st

\* The loop over the first k lines; it ends at the first exception.
RECURSIVE ParseEvents(_, _)
ParseEvents(lines, k) ==
    IF k = 0 THEN LoopStart
    ELSE LET st == ParseEvents(lines, k - 1)
         IN  IF st.exc # "none" THEN st ELSE HandleLine(st, lines[k])

FirstTen(events) == SubSeq(events, 1, IF Len(events) < 10 THEN Len(events) ELSE 10)

\* final_response.get(key, default)
GetResponse(object) ==
    IF object.response = AbsentKey
    THEN <<"Presentation generated successfully!", 0>> ELSE object.response

GetMetadata(object) ==
    IF object.metadata = AbsentMetadata THEN MetadataObject(0) ELSE object.metadata

Returns(value) == [exc |-> "none", value |-> value]
Raises(exc) == [exc |-> exc, value |-> [status |-> "raised"]]

\* Lines 102-129: the result built once the loop has ended.
BuildResult(st) ==
    IF Truthy(st.final_response)
    THEN IF st.final_response.type # "dict" THEN Raises("AttributeError")
         ELSE IF GetMetadata(st.final_response.object).type # "dict"
         THEN Raises("AttributeError")
         ELSE Returns([status |-> "success",
                       response |-> GetResponse(st.final_response.object),
                       metadata |-> GetMetadata(st.final_response.object),
                       summary |-> [totalEvents |-> Len(st.events),
                                    thinkingSteps |-> st.thinking_steps,
                                    toolsCalled |-> st.tool_calls,
                                    executionTime |->
                                        GetMetadata(st.final_response.object)
                                            .totalExecutionTime]])
    ELSE Returns([status |-> "error",
                  error |-> <<"No final response received from backend", 0>>,
                  events |-> FirstTen(st.events)])

\* The try block, lines 44-129.
TryBlock(backend) ==
    IF backend.kind = "raises" THEN Raises(backend.exc)
    ELSE IF backend.status_code # 200
    THEN IF backend.broken THEN Raises("ChunkedEncodingError")
         ELSE Returns([status |-> "error",
                       error |-> <<"Backend returned status", backend.status_code>>])
    ELSE LET st == ParseEvents(backend.lines, Len(backend.lines))
         IN  IF st.exc # "none" THEN Raises(st.exc)
             ELSE IF backend.broken THEN Raises("ChunkedEncodingError")
             ELSE BuildResult(st)

\* Mutant: the function has only its two named handlers.
CatchesOnlyNamed(exc) == FALSE

\* except Exception as e (line 144) takes what the two handlers before it
\* did not.
CatchesException(exc) == TRUE

create_presentation(backend) ==
    LET body == TryBlock(backend)
    IN  IF body.exc = "none" THEN [raised |-> FALSE, value |-> body.value]
        ELSE IF body.exc = "ConnectionError"
        THEN [raised |-> FALSE,
              value |-> [status |-> "error",
                         error |-> <<"Cannot connect to Deckr.ai backend", 0>>]]
        ELSE IF body.exc = "Timeout"
        THEN [raised |-> FALSE,
              value |-> [status |-> "error",
                         error |-> <<"Backend request timed out (5 minutes)", 0>>]]
        ELSE IF CatchesException(body.exc)
        THEN [raised |-> FALSE,
              value |-> [status |-> "error",
                         error |-> <<"Unexpected error", 0>>, type |-> body.exc]]
        ELSE [raised |-> TRUE, value |-> [status |-> "raised", type |-> body.exc]]

InitCreate ==
    /\ pc = "create_presentation"
    /\ response \in BackendBehaviours
    /\ master_output = <<>>
    /\ slide_briefs = <<>>
    /\ brand_and_design = <<>>
    /\ max_workers = 0
    /\ future = <<>>
    /\ yielded = <<>>
    /\ results = <<>>
    /\ slide_results = <<>>
    /\ final_document = <<>>
    /\ metadata = <<>>
    /\ exception = "none"
    /\ p2_calls = 0
    /\ result = NotReturned

CreatePresentation ==
    /\ pc = "create_presentation"
    /\ result' = create_presentation(response)
    /\ pc' = "returned"
    /\ UNCHANGED <<master_output, slide_briefs, brand_and_design, max_workers, future,
                   yielded, results, slide_results, final_document, metadata, exception,
                   p2_calls, response>>

NextCreate == CreatePresentation

SpecCreate == InitCreate /\ [][NextCreate]_vars

\* ------------------------------------------------------------- properties
\* run_parallel_slide_agents has returned to main.
Phase2Returned ==
    \/ pc \in {"assemble_final_document", "save_results", "done"}
    \/ pc = "raised" /\ exception \in {"KeyError", "ValueError"}

\* The reply of a unit's own call makes the unit fail.
ReplyFails(reply) ==
    \/ reply.kind \in {"load_prompt_error", "api_error"}
    \/ reply.kind = "response" /\ reply.candidates = 0

Failed(f) ==
    f.state = "FINISHED" /\ (IF f.outcome.raised THEN TRUE ELSE ~f.outcome.result.success)
Succeeded(f) ==
    f.state = "FINISHED" /\ (IF f.outcome.raised THEN FALSE ELSE f.outcome.result.success)

NumWithSlideNumber(seq, n) ==
    Cardinality({k \in 1..Len(seq) : seq[k].slide_number = n})

Occurrences(seq, r) == Cardinality({k \in 1..Len(seq) : seq[k] = r})

\* C1: every submitted brief contributes exactly one result.  While the loop
\* collects, the k-th result appended is the result of the k-th future
\* yielded and no future is yielded twice; once run_parallel_slide_agents has
\* returned, the list has len(briefs) entries, as many with each slide number
\* as there are briefs with that number.
C1_OneResultPerBrief ==
    /\ Len(results) = Len(yielded)
    /\ \A a, b \in 1..Len(yielded) : a # b => yielded[a] # yielded[b]
    /\ \A k \in 1..Len(results) :
          LET o == future[yielded[k]].outcome
          IN  /\ results[k].slide_number = slide_briefs[yielded[k]].slide_number
              /\ ~o.raised => results[k] = o.result
              /\ o.raised => results[k].error = o.exception
    /\ Phase2Returned =>
          /\ Len(slide_results) = Len(slide_briefs)
          /\ \A n \in 1..MaxSlideNum :
                NumWithSlideNumber(slide_results, n) = NumWithSlideNumber(slide_briefs, n)

\* Two briefs declare the same slide number and the second completed first.
C1_Witness ==
    /\ Phase2Returned
    /\ Len(slide_briefs) = 2
    /\ slide_briefs[1].slide_number = slide_briefs[2].slide_number
    /\ yielded = <<2, 1>>
    /\ Len(slide_results) = 2

\* C2: the returned list is in non-decreasing slide_number order whatever the
\* completion order was, and it is a permutation of the results collected.
C2_SortedPermutation ==
    Phase2Returned =>
        /\ \A k \in 1..(Len(slide_results) - 1) :
              slide_results[k].slide_number <= slide_results[k + 1].slide_number
        /\ Len(slide_results) = Len(results)
        /\ \A k \in 1..Len(results) :
              Occurrences(slide_results, results[k]) = Occurrences(results, results[k])

\* The results were collected out of slide_number order.
C2_Witness ==
    /\ Phase2Returned
    /\ Len(results) = 2
    /\ results[1].slide_number > results[2].slide_number
    /\ slide_results = <<results[2], results[1]>>

\* C3: at most max_workers units are in flight; a unit beyond the limit is
\* not started while max_workers units are running.
C3_BoundedInFlight == NumRunning(future) <= max_workers

\* The pool is full and a unit is queued behind it.
C3_Witness ==
    /\ pc = "executor"
    /\ NumRunning(future) = max_workers
    /\ \E i \in 1..Len(future) : future[i].state = "PENDING"

\* C4: partial failure isolation.  Every finished future was run by a worker
\* with its own call; its result is a success exactly when its own call gave
\* a usable response, whatever the other units did; and when
\* run_parallel_slide_agents has returned every unit was run.
C4_FailureIsolation ==
    /\ \A i \in 1..Len(future) :
          future[i].state = "FINISHED" =>
              /\ future[i].reply # NotCalled
              /\ Succeeded(future[i]) <=> ~ReplyFails(future[i].reply)
    /\ \A k \in 1..Len(results) :
          k <= Len(yielded) =>
              (results[k].success <=> ~ReplyFails(future[yielded[k]].reply))
    /\ Phase2Returned =>
          \A i \in 1..Len(slide_briefs) :
              i <= Len(future) /\ future[i].reply # NotCalled

\* With one worker the first unit failed while the second was queued, and the
\* second still ran and succeeded.
C4_Witness ==
    /\ Phase2Returned
    /\ max_workers = 1
    /\ Len(future) = 2
    /\ Failed(future[1])
    /\ Succeeded(future[2])

\* C5: run_parallel_slide_agents returns only when every submitted unit has
\* reached a terminal state; there is no fail-fast.
C5_ReturnsAfterAllTerminal ==
    Phase2Returned =>
        /\ Len(future) = Len(slide_briefs)
        /\ \A i \in 1..Len(future) : future[i].state = "FINISHED"
        /\ Len(yielded) = Len(future)

\* The first unit collected had failed and the run went on to the second.
C5_Witness ==
    /\ Phase2Returned
    /\ Len(yielded) = 2
    /\ Failed(future[yielded[1]])

\* C6: an error raised while a unit is executed is not raised out of
\* run_parallel_slide_agents; it becomes that unit's result with
\* success = false and the error message.
C6_UnitErrorsBecomeResults ==
    /\ exception # "unit"
    /\ \A k \in 1..Len(yielded) :
          LET i == yielded[k]
          IN  ReplyFails(future[i].reply) =>
                 /\ k <= Len(results)
                 /\ results[k].success = FALSE
                 /\ "error" \in DOMAIN results[k]
                 /\ results[k].error = ErrorText(future[i].reply, i)

\* One unit raised outside the try block and one inside it; both were
\* collected.
C6_Witness ==
    /\ Phase2Returned
    /\ \E a, b \in 1..Len(future) :
          /\ future[a].reply = LoadPromptError
          /\ future[b].reply = ApiError

\* C7: when the planning output yields no brief, main returns before phase 2:
\* no unit is submitted, no phase 2 call is made, nothing is assembled and no
\* statistics are built.
C7_NoBriefsAborts ==
    (/\ pc \notin {"run_master_planning", "parse_slide_briefs"}
     /\ exception # "phase1"
     /\ parse_slide_briefs(master_output) = <<>>)
    => /\ pc \in {"check_briefs", "returned_no_briefs"}
       /\ future = <<>>
       /\ p2_calls = 0
       /\ final_document = <<>>
       /\ metadata = <<>>

\* main returned on a planning output that has text but no brief header.
C7_Witness ==
    /\ pc = "returned_no_briefs"
    /\ master_output # <<>>

\* C8: a failed phase 1 call halts the run before any brief is extracted or
\* any phase 2 call is made; a failed phase 1 call and an empty list of
\* briefs are the only reasons for which a run halts.
C8_OnlyTwoHalts ==
    /\ exception = "phase1" =>
          /\ slide_briefs = <<>>
          /\ future = <<>>
          /\ p2_calls = 0
    /\ pc = "returned_no_briefs" => NoBriefs(slide_briefs)
    /\ pc = "raised" => exception = "phase1"

\* The blocks of the units in a document: the tokens between the heading of
\* the detailed specifications and the closing production notes, split into
\* blocks.
UnitPart(doc) ==
    SubSeq(doc, FirstIndexOf(doc, DetailedSpecsHeader, 1) + 1, Len(doc) - 5)

RECURSIVE ParseBlocks(_)
ParseBlocks(toks) ==
    IF toks = <<>> THEN <<>>
    ELSE IF toks[1] # NL THEN <<[kind |-> "malformed", slide |-> 0, text |-> toks]>>
    ELSE IF Len(toks) >= 11 /\ toks[2][1] = "### SLIDE n: ERROR"
    THEN <<[kind |-> IF toks[5] = <<"**Error:**", 0>> /\ toks[9] = Rule
                     THEN "error" ELSE "malformed",
            slide |-> toks[2][2], text |-> <<toks[6]>>]>>
         \o ParseBlocks(SubSeq(toks, 12, Len(toks)))
    ELSE LET e == SpanEnd(toks, {NL[1]}, 2)
         IN  <<[kind |-> "output", slide |-> 0, text |-> SubSeq(toks, 2, e - 1)]>>
             \o ParseBlocks(SubSeq(toks, e + 2, Len(toks)))

Blocks == ParseBlocks(UnitPart(final_document))

\* C9: the document has one block per entry of the batch result, the output
\* of a success and an error block for a failure, in ascending slide_number
\* order whatever the completion order was.
C9_OneBlockPerEntryInOrder ==
    final_document # <<>> =>
        /\ Len(Blocks) = Len(results)
        /\ Len(Blocks) = Len(slide_results)
        /\ \A k \in 1..Len(slide_results) :
              /\ k <= Len(Blocks)
              /\ IF slide_results[k].success
                 THEN Blocks[k].kind = "output" /\ Blocks[k].text = slide_results[k].output
                 ELSE Blocks[k].kind = "error"
                      /\ Blocks[k].slide = slide_results[k].slide_number
        /\ \A k \in 1..(Len(slide_results) - 1) :
              slide_results[k].slide_number <= slide_results[k + 1].slide_number

\* A failure and a success, the unit with the higher number collected first.
C9_Witness ==
    /\ final_document # <<>>
    /\ Len(results) = 2
    /\ results[1].slide_number > results[2].slide_number
    /\ results[1].success # results[2].success

\* C10: every failed unit, whichever path made its result, has exactly one
\* delimited error block with its slide number and its error text, and no
\* block shows None in place of an output.
C10_ErrorBlockPerFailedUnit ==
    final_document # <<>> =>
        /\ \A i \in 1..Len(future) :
              Failed(future[i]) =>
                 Occurrences(Blocks,
                             [kind |-> "error", slide |-> slide_briefs[i].slide_number,
                              text |-> <<ErrorText(future[i].reply, i)>>]) = 1
        /\ \A k \in 1..Len(Blocks) :
              \A t \in 1..Len(Blocks[k].text) : Blocks[k].text[t] # None

\* The document of a batch in which one unit failed on the handler's path and
\* one on the worker's.
C10_Witness ==
    /\ final_document # <<>>
    /\ \E a, b \in 1..Len(future) :
          /\ future[a].reply = LoadPromptError
          /\ future[b].reply \in {ApiError, NoCandidates}

\* C12: a partial batch failure is not fatal: when some but not all units
\* failed, by whatever path, the run does not end in an exception after
\* run_parallel_slide_agents has returned; it goes on to the document and the
\* statistics.
C12_PartialFailureNotFatal ==
    (/\ Phase2Returned
     /\ \E i \in 1..Len(future) : Failed(future[i])
     /\ \E i \in 1..Len(future) : Succeeded(future[i]))
    => /\ pc # "raised"
       /\ pc = "done" => final_document # <<>> /\ metadata # <<>>

\* C13: every result collected has the full record shape on each of the three
\* paths: slide_number, elapsed_time and success are present; an output is
\* present exactly when success is true and an error exactly when it is false.
HasOutput(r) == IF "output" \in DOMAIN r THEN r.output # <<None>> ELSE FALSE
HasError(r) == "error" \in DOMAIN r

C13_FullRecordShape ==
    \A k \in 1..Len(results) :
        /\ {"slide_number", "elapsed_time", "success"} \subseteq DOMAIN results[k]
        /\ HasOutput(results[k]) <=> results[k].success
        /\ HasError(results[k]) <=> ~results[k].success

\* The index of the last brief in scan order that declares slide number n.
LastBriefWith(n) ==
    CHOOSE i \in 1..Len(slide_briefs) :
        /\ slide_briefs[i].slide_number = n
        /\ \A j \in (i + 1)..Len(slide_briefs) : slide_briefs[j].slide_number # n

DeclaredNumbers == {slide_briefs[i].slide_number : i \in 1..Len(slide_briefs)}

\* The block the document shows for the unit of brief i.
BlockOfUnit(i) ==
    IF Succeeded(future[i])
    THEN [kind |-> "output", slide |-> 0, text |-> future[i].outcome.result.output]
    ELSE [kind |-> "error", slide |-> slide_briefs[i].slide_number,
          text |-> <<ErrorText(future[i].reply, i)>>]

\* The k-th smallest element of a set of numbers.
RECURSIVE KthSmallest(_, _)
KthSmallest(S, k) ==
    LET least == CHOOSE x \in S : \A y \in S : x <= y
    IN  IF k = 1 THEN least ELSE KthSmallest(S \ {least}, k - 1)

\* C15: a slide number declared by several briefs is rendered once, with the
\* result of the last of these briefs in scan order, so the document is the
\* same for every completion order; numbers no brief declares have no block.
C15_DuplicatesLastWriteWins ==
    final_document # <<>> =>
        /\ Len(Blocks) = Cardinality(DeclaredNumbers)
        /\ \A k \in 1..Cardinality(DeclaredNumbers) :
              k <= Len(Blocks) =>
                  Blocks[k] = BlockOfUnit(LastBriefWith(KthSmallest(DeclaredNumbers, k)))

\* C19: a unit makes at most one call of the generation service and a failed
\* call is not retried: the calls made so far are one per finished unit whose
\* worker reached the call, never more than there are briefs, and once
\* run_parallel_slide_agents has returned with every prompt built, exactly as
\* many as there are briefs.
C19_AtMostOneCallPerUnit ==
    /\ p2_calls = Cardinality({i \in 1..Len(future) :
                                  future[i].reply.kind \in {"api_error", "response"}})
    /\ p2_calls <= Len(slide_briefs)
    /\ (/\ Phase2Returned
        /\ \A i \in 1..Len(future) : future[i].reply.kind # "load_prompt_error")
       => p2_calls = Len(slide_briefs)

\* Two units ran, the call of one raised, and two calls were made in all.
C19_Witness ==
    /\ Phase2Returned
    /\ Len(future) = 2
    /\ future[1].reply = ApiError
    /\ future[2].reply.kind = "response"
    /\ p2_calls = 2

\* The reply is a response without usable output: no candidate, or no part
\* that is not a thought.
NoUsableOutput(reply) ==
    /\ reply.kind = "response"
    /\ \/ reply.candidates = 0
       \/ \A k \in 1..Len(reply.parts) : reply.parts[k].thought

\* C20: a response without usable output gives the unit a failed result with
\* an error, as a transport error does; it is never a success with empty
\* output.
C20_NoUsableOutputFails ==
    \A i \in 1..Len(future) :
        (future[i].state = "FINISHED" /\ NoUsableOutput(future[i].reply))
        => /\ Failed(future[i])
           /\ ~future[i].outcome.raised
           /\ HasError(future[i].outcome.result)


\* Where the span of the brief whose header is at p stops: the first place
\* after p that holds a brief header or the next-steps heading, or the place
\* after the last token.
BriefStops(text, q) ==
    IF q > Len(text) THEN TRUE
    ELSE IsSlideBriefHeader(text[q]) \/ text[q] = NextStepsHeader

SpanStop(text, p) ==
    CHOOSE q \in (p + 1)..(Len(text) + 1) :
        /\ BriefStops(text, q)
        /\ \A r \in (p + 1)..(q - 1) : ~BriefStops(text, r)

HeaderPositions(text) == {p \in 1..Len(text) : IsSlideBriefHeader(text[p])}

\* C17: parse_slide_briefs returns one brief per brief header of the text, in
\* the order of the headers and numbered as its header says (none when there
\* is no header); the brief is the text from its header up to the next brief
\* header, the next-steps heading or the end, whichever comes first, less the
\* whitespace at the end of that span; past its first token it holds neither
\* a brief header nor the next-steps heading.
C17_OneBriefPerHeaderSpan ==
    pc = "parsed" =>
        LET text == master_output
            H == HeaderPositions(text)
        IN  /\ Len(slide_briefs) = Cardinality(H)
            /\ \A k \in 1..Len(slide_briefs) :
                  LET p == KthSmallest(H, k)
                      span == SubSeq(text, p, SpanStop(text, p) - 1)
                      b == slide_briefs[k].brief
                  IN  /\ slide_briefs[k].slide_number = text[p][2]
                      /\ Len(b) >= 1 /\ Len(b) <= Len(span)
                      /\ b = SubSeq(span, 1, Len(b))
                      /\ b[Len(b)] # NL
                      /\ \A j \in (Len(b) + 1)..Len(span) : span[j] = NL
                      /\ \A j \in 2..Len(b) :
                            ~IsSlideBriefHeader(b[j]) /\ b[j] # NextStepsHeader

\* A brief that the next-steps heading ends, with more text after the heading.
C17_Witness ==
    /\ pc = "parsed"
    /\ \E p \in HeaderPositions(master_output) :
          LET q == SpanStop(master_output, p)
          IN  /\ q > p + 1
              /\ q < Len(master_output)
              /\ master_output[q] = NextStepsHeader

\* The part of the shared context a section regex gives: nothing when the
\* marker does not occur, else the tokens after its first occurrence up to the
\* first stop heading or the end, without the newlines around them.
MarkerPositions(text, marker) == {p \in 1..Len(text) : text[p] = marker}

ExpectedPart(text, marker, stop) ==
    IF MarkerPositions(text, marker) = {} THEN <<>>
    ELSE LET m == KthSmallest(MarkerPositions(text, marker), 1)
             later == {q \in MarkerPositions(text, stop) : q > m}
             e == IF later = {} THEN Len(text) + 1 ELSE KthSmallest(later, 1)
             inner == {j \in (m + 1)..(e - 1) : text[j] # NL}
         IN  IF inner = {} THEN <<>>
             ELSE SubSeq(text, KthSmallest(inner, 1),
                         KthSmallest(inner, Cardinality(inner)))

\* C18: for every text the shared context is the heading of the brand part,
\* the brand part, the separator, the heading of the design part and the
\* design part, in this order with the same newlines between them; each part
\* is what its own section of the text gives, and is empty when its marker
\* does not occur, whatever the other part is.
C18_FixedFrame ==
    pc = "extracted" =>
        LET brand == ExpectedPart(master_output, BrandResearchHeader, DeckArchitectureHeader)
            design == ExpectedPart(master_output, DesignSystemHeader, SlideBriefsHeader)
        IN  /\ brand_and_design =
                  <<<<"## BRAND GUIDELINES", 0>>, NL, NL>> \o brand
                  \o <<NL, NL, <<"---", 0>>, NL, NL, <<"## DESIGN SYSTEM", 0>>, NL, NL>>
                  \o design \o <<NL>>
            /\ MarkerPositions(master_output, BrandResearchHeader) = {} => brand = <<>>
            /\ MarkerPositions(master_output, DesignSystemHeader) = {} => design = <<>>

\* A text without the brand marker whose design section is not empty.
C18_Witness ==
    /\ pc = "extracted"
    /\ MarkerPositions(master_output, BrandResearchHeader) = {}
    /\ ExpectedPart(master_output, DesignSystemHeader, SlideBriefsHeader) # <<>>
    /\ Len(brand_and_design) > 12

\* The numbers the brief headers of the text declare, in scan order.
HeaderNumbers(text) ==
    LET H == HeaderPositions(text)
    IN  [k \in 1..Cardinality(H) |-> text[KthSmallest(H, k)][2]]

\* C11: when save_results has written the metadata, total_slides is the
\* number of briefs submitted, successful_slides the number of units whose
\* generation call returned a response with a candidate and failed_slides the
\* number of the other units, so the two add up to total_slides; a run of five
\* units in which only the call of unit 3 fails finishes and reports 4 and 1.
C11_CountsAddUp ==
    /\ pc = "done" =>
          LET units == 1..Len(future)
              failed == {i \in units : ReplyFails(future[i].reply)}
          IN  /\ Len(metadata) = 1
              /\ Len(future) = Len(slide_briefs)
              /\ metadata[1].total_slides = Len(slide_briefs)
              /\ metadata[1].failed_slides = Cardinality(failed)
              /\ metadata[1].successful_slides = Cardinality(units \ failed)
              /\ metadata[1].successful_slides + metadata[1].failed_slides
                    = metadata[1].total_slides
    /\ ( /\ pc \in {"done", "raised"}
         /\ Len(future) = 5
         /\ future[3].reply \in {ApiError, NoCandidates}
         /\ \A i \in {1, 2, 4, 5} : ~ReplyFails(future[i].reply) )
       => /\ pc = "done"
          /\ metadata[1].failed_slides = 1
          /\ metadata[1].successful_slides = 4

\* Five units, the call of unit 3 raised, the counts are written.
C11_Witness ==
    /\ pc = "done"
    /\ Len(future) = 5
    /\ future[3].reply = ApiError
    /\ \A i \in {1, 2, 4, 5} : ~ReplyFails(future[i].reply)
    /\ metadata[1].failed_slides = 1

\* C14 as stated: with N >= 1 briefs found, the returned list has N entries
\* whose slide numbers are pairwise distinct and are numbers that brief
\* headers of the planning output declare.
C14_DistinctDeclaredIndices ==
    (Phase2Returned /\ Len(slide_briefs) >= 1) =>
        /\ Len(slide_results) = Len(slide_briefs)
        /\ \A j, k \in 1..Len(slide_results) :
              j # k => slide_results[j].slide_number # slide_results[k].slide_number
        /\ \A k \in 1..Len(slide_results) :
              \E h \in 1..Len(HeaderNumbers(master_output)) :
                  slide_results[k].slide_number = HeaderNumbers(master_output)[h]

\* C14: with N >= 1 briefs found, the returned list has N entries; each
\* number has as many entries as brief headers of the planning output declare
\* it, so every entry carries a declared number, and the numbers of the
\* entries are pairwise distinct when those of the headers are.
C14_OneEntryPerDeclaredMarker ==
    (Phase2Returned /\ Len(slide_briefs) >= 1) =>
        LET declared == HeaderNumbers(master_output)
        IN  /\ Len(slide_results) = Len(slide_briefs)
            /\ Len(slide_results) = Len(declared)
            /\ \A k \in 1..Len(slide_results) :
                  \E h \in 1..Len(declared) :
                      slide_results[k].slide_number = declared[h]
            /\ \A h \in 1..Len(declared) :
                  NumWithSlideNumber(slide_results, declared[h])
                      = Cardinality({g \in 1..Len(declared) : declared[g] = declared[h]})
            /\ (\A g, h \in 1..Len(declared) : g # h => declared[g] # declared[h])
                  => \A j, k \in 1..Len(slide_results) :
                        j # k => slide_results[j].slide_number
                                     # slide_results[k].slide_number

\* A batch returned for a planning output whose only header is not slide 1.
C14_Witness ==
    /\ Phase2Returned
    /\ Len(slide_results) = 1
    /\ HeaderNumbers(master_output) = <<2>>

\* C16: for a planning output whose brief headers declare 1, 2 and 2,
\* parse_slide_briefs returns a list of two or three briefs without raising,
\* and the document assembled from the batch ends with the production notes
\* and the closing line.
C16_DuplicateMarkerTolerated ==
    HeaderNumbers(master_output) = <<1, 2, 2>> =>
        /\ pc # "parse_slide_briefs" =>
              /\ Len(slide_briefs) \in {2, 3}
              /\ exception \notin {"parse_slide_briefs"}
              /\ pc # "returned_no_briefs"
        /\ pc \in {"save_results", "done"} =>
              /\ Len(final_document) >= 5
              /\ SubSeq(final_document, Len(final_document) - 4, Len(final_document))
                    = <<NL, Rule, ProductionNotesHeader, Rule, GeneratedWith>>
              /\ Cardinality({k \in 1..Len(final_document) :
                                 final_document[k] = ProductionNotesHeader}) = 1

\* The document of a run on headers 1, 2, 2 has been assembled.
C16_Witness ==
    /\ HeaderNumbers(master_output) = <<1, 2, 2>>
    /\ pc = "save_results"
    /\ final_document # <<>>
    /\ Len(slide_results) = 3

\* C23: under the fairness of SpecPool every brief is submitted, every
\* submitted unit leaves the queue and reaches its terminal state, and
\* run_parallel_slide_agents returns.
C23_EveryUnitTerminates ==
    /\ \A i \in 1..MaxPoolUnits :
          /\ (pc = "executor" /\ i <= Len(slide_briefs)) ~> (i <= Len(future))
          /\ (i <= Len(future))
                ~> (IF i <= Len(future) THEN future[i].state # "PENDING" ELSE FALSE)
          /\ (i <= Len(future))
                ~> (IF i <= Len(future) THEN future[i].state = "FINISHED" ELSE FALSE)
    /\ (pc = "executor") ~> (pc = "assemble_final_document")

\* A batch returned by a pool of one thread: the second unit had to wait.
C23_Witness ==
    /\ pc = "assemble_final_document"
    /\ max_workers = 1
    /\ Len(future) >= 2
    /\ \A i \in 1..Len(future) : future[i].state = "FINISHED"

\* C24: whenever a unit is queued and fewer than max_workers units are
\* running, a pool thread can take a unit at once: only the limit keeps a unit
\* waiting.  With max_workers = 1 no two units run together.
C24_OnlyTheLimitBlocks ==
    pc = "executor" =>
        /\ ( /\ \E i \in 1..Len(future) : future[i].state = "PENDING"
             /\ NumRunning(future) < max_workers )
           => ENABLED (\E i \in 1..Len(future) : Start(i))
        /\ max_workers = 1 => NumRunning(future) <= 1

\* With max_workers >= N all N >= 2 units run at the same time.
C24_Witness ==
    /\ pc = "executor"
    /\ Len(future) = Len(slide_briefs)
    /\ Len(future) >= 2
    /\ max_workers >= Len(future)
    /\ \A i \in 1..Len(future) : future[i].state = "RUNNING"

\* The prompt of lines 161-176 for slide n, written out.
ExpectedPrompt(n, context, brief) ==
    <<<<"# SLIDE SPECIFICATION TASK", 0>>, NL, NL,
      <<"You are generating the specification for SLIDE n.", n>>, NL, NL,
      <<"---", 0>>, NL, NL>>
    \o context
    \o <<NL, NL, <<"---", 0>>, NL, NL>>
    \o brief
    \o <<NL, NL, <<"---", 0>>, NL, NL,
         <<"parallel-slide-agent-prompt.md", 0>>, NL>>

\* C27: no step of phase 2 changes the shared context or the brief list;
\* every work item is bound to that one shared context and to the text of its
\* own brief, and the prompt sent for a unit is the task heading, the shared
\* context, the unit's own brief and the task template, in this order.
C27_SameContextOwnBrief ==
    /\ [][pc = "executor" =>
             /\ brand_and_design' = brand_and_design
             /\ slide_briefs' = slide_briefs]_vars
    /\ [](\A i \in 1..Len(future) :
             /\ future[i].args.brand_and_design = brand_and_design
             /\ future[i].args.slide_brief = slide_briefs[i].brief
             /\ future[i].args.slide_number = slide_briefs[i].slide_number
             /\ future[i].prompt # <<>> =>
                   future[i].prompt = ExpectedPrompt(slide_briefs[i].slide_number,
                                                     brand_and_design,
                                                     slide_briefs[i].brief)
             /\ (future[i].state = "FINISHED"
                    /\ future[i].reply.kind \in {"api_error", "response"})
                   => future[i].prompt # <<>>)

\* Two units with different briefs have both sent their prompt.
C27_Witness ==
    /\ Len(future) >= 2
    /\ slide_briefs[1].brief # slide_briefs[2].brief
    /\ future[1].prompt # <<>>
    /\ future[2].prompt # <<>>
    /\ future[1].prompt # future[2].prompt

\* The entry of the batch result that the reply of unit i determines, the
\* elapsed time left out.
ExpectedEntry(i) ==
    LET n == slide_briefs[i].slide_number
        reply == future[i].reply
    IN  IF reply.kind = "load_prompt_error"
        THEN [slide_number |-> n, success |-> FALSE, error |-> ErrorText(reply, i)]
        ELSE IF ReplyFails(reply)
        THEN [slide_number |-> n, output |-> <<None>>, success |-> FALSE,
              error |-> ErrorText(reply, i)]
        ELSE [slide_number |-> n, success |-> TRUE,
              output |-> IF reply.parts[1].thought THEN <<>> ELSE reply.parts[1].text]

WithoutElapsed(r) == [f \in DOMAIN r \ {"elapsed_time"} |-> r[f]]

UnitWithNumber(n) == CHOOSE i \in 1..Len(slide_briefs) : slide_briefs[i].slide_number = n

DistinctSlideNumbers ==
    \A i, j \in 1..Len(slide_briefs) :
        i # j => slide_briefs[i].slide_number # slide_briefs[j].slide_number

\* C30: when the briefs have pairwise distinct slide numbers, the returned
\* list and the document are determined by the briefs and by the reply each
\* unit got: the k-th entry (its elapsed time apart) and the k-th block are
\* those of the unit with the k-th smallest slide number, whatever the order
\* of completion and whatever max_workers is.
C30_DeterministicResultAndDocument ==
    DistinctSlideNumbers =>
        /\ pc \in {"assemble_final_document", "save_results"} =>
              /\ Len(slide_results) = Len(slide_briefs)
              /\ \A k \in 1..Len(slide_results) :
                    WithoutElapsed(slide_results[k])
                        = ExpectedEntry(UnitWithNumber(KthSmallest(DeclaredNumbers, k)))
        /\ pc = "save_results" =>
              /\ Len(Blocks) = Len(slide_briefs)
              /\ \A k \in 1..Len(Blocks) :
                    Blocks[k] = BlockOfUnit(UnitWithNumber(KthSmallest(DeclaredNumbers, k)))
              /\ final_document
                    = <<DocumentTitle, Rule, ExecSummaryHeader, Rule, BrandResearchHeader,
                        Rule, DeckArchitectureHeader, Rule, DesignSystemHeader, Rule,
                        DetailedSpecsHeader>>
                      \o UnitPart(final_document)
                      \o <<NL, Rule, ProductionNotesHeader, Rule, GeneratedWith>>

\* A document assembled after the unit with the larger slide number was
\* collected first, by a pool of more than one thread.
C30_Witness ==
    /\ pc = "save_results"
    /\ DistinctSlideNumbers
    /\ Len(yielded) >= 2
    /\ slide_briefs[yielded[1]].slide_number > slide_briefs[yielded[2]].slide_number
    /\ max_workers >= 2

\* The places of the parts of the response that are not thoughts.
AnswerPlaces == {k \in 1..Len(response.parts) : ~response.parts[k].thought}

\* text is the texts of these parts in the order of the response, one
\* paragraph break between two of them and nothing else.
JoinsTheAnswers(text) ==
    LET n == Cardinality(AnswerPlaces)
    IN  /\ Len(text) = IF n = 0 THEN 0 ELSE 2 * n - 1
        /\ \A k \in 1..n :
              /\ 2 * k - 1 <= Len(text) =>
                    <<text[2 * k - 1]>> = response.parts[KthSmallest(AnswerPlaces, k)].text
              /\ (k < n /\ 2 * k <= Len(text)) => text[2 * k] = <<"\\n\\n", 0>>
        /\ \A j \in 1..Len(text) :
              \A k \in 1..Len(response.parts) :
                  response.parts[k].thought => <<text[j]>> # response.parts[k].text

\* C21: the text returned for a response is made of the texts of all its
\* parts that are not thoughts, in the order of the response and separated by
\* a paragraph break, both for the planning call and for a slide agent, whose
\* result is then a success; no text of a thought is in it.
C21_AnswerPartsInOrder ==
    /\ pc = "master_planned" => JoinsTheAnswers(master_output)
    /\ pc = "slide_returned" =>
          /\ results[1].success
          /\ JoinsTheAnswers(results[1].output)

\* A slide agent returned for a response with a thought between two answers.
C21_Witness ==
    /\ pc = "slide_returned"
    /\ Len(response.parts) = 3
    /\ ~response.parts[1].thought
    /\ response.parts[2].thought
    /\ ~response.parts[3].thought
    /\ response.parts[1] # response.parts[3]
    /\ Len(results[1].output) = 3

\* C22: the stages of a run follow one another.  The planning output is set
\* by the step that ends run_master_planning, which is taken once, main never
\* being there again; the briefs and the shared context are set only after
\* it; a unit is submitted only when both have been extracted from the
\* planning output; the document is assembled only when
\* run_parallel_slide_agents has returned the results of all units; the
\* statistics are built only from an assembled document.
C22_StagesInOrder ==
    [][ /\ pc' = "run_master_planning" => pc = "run_master_planning"
        /\ master_output' # master_output => pc = "run_master_planning"
        /\ slide_briefs' # slide_briefs => pc = "parse_slide_briefs"
        /\ brand_and_design' # brand_and_design =>
              /\ pc = "check_briefs"
              /\ slide_briefs = parse_slide_briefs(master_output)
        /\ future' # future =>
              /\ pc = "executor"
              /\ slide_briefs = parse_slide_briefs(master_output)
              /\ brand_and_design = extract_brand_and_design_system(master_output)
        /\ p2_calls' # p2_calls => pc = "executor"
        /\ final_document' # final_document =>
              /\ pc = "assemble_final_document"
              /\ Len(slide_results) = Len(slide_briefs)
              /\ \A i \in 1..Len(future) : future[i].state = "FINISHED"
              /\ Len(yielded) = Len(future)
        /\ (metadata' # metadata \/ pc' = "done") =>
              /\ pc = "save_results"
              /\ final_document # <<>>
      ]_vars

\* A run that went through every stage.
C22_Witness ==
    /\ pc = "done"
    /\ metadata # <<>>
    /\ final_document # <<>>
    /\ p2_calls >= 1

\* C25: the k-th brief returned is the brief of the k-th brief header of the
\* text in scan order: it starts with that header and carries the number the
\* header declares, whether or not the numbers ascend or repeat.
C25_ScanOrderDeclaredNumber ==
    pc = "parsed" =>
        LET H == HeaderPositions(master_output)
        IN  /\ Len(slide_briefs) = Cardinality(H)
            /\ \A k \in 1..Len(slide_briefs) :
                  /\ slide_briefs[k].brief[1] = master_output[KthSmallest(H, k)]
                  /\ slide_briefs[k].slide_number = slide_briefs[k].brief[1][2]
            /\ [k \in 1..Len(slide_briefs) |-> slide_briefs[k].slide_number]
                  = HeaderNumbers(master_output)

\* The briefs of a text whose headers do not ascend: a number comes after a
\* larger one or after itself.
C25_Witness ==
    /\ pc = "parsed"
    /\ \E j, k \in 1..Len(slide_briefs) :
          /\ j < k
          /\ slide_briefs[j].slide_number > slide_briefs[k].slide_number
    /\ \E j, k \in 1..Len(slide_briefs) :
          /\ j < k
          /\ slide_briefs[j].slide_number = slide_briefs[k].slide_number

\* The part of a section as the claim describes it: from the marker to the
\* next heading of the text that starts with "##", whichever it is, or to the
\* end, without the newlines around it.
PartUpToNextHeading(text, marker) ==
    IF MarkerPositions(text, marker) = {} THEN <<>>
    ELSE LET m == KthSmallest(MarkerPositions(text, marker), 1)
             later == {q \in (m + 1)..Len(text) : text[q][1] \in AnyHashes}
             e == IF later = {} THEN Len(text) + 1 ELSE KthSmallest(later, 1)
             inner == {j \in (m + 1)..(e - 1) : text[j] # NL}
         IN  IF inner = {} THEN <<>>
             ELSE SubSeq(text, KthSmallest(inner, 1),
                         KthSmallest(inner, Cardinality(inner)))

\* C26: the brand part and the design part of the shared context each run
\* from their marker to the next "##" heading of the text, whichever heading
\* that is, or to the end of the text.
C26_SectionEndsAtNextHeading ==
    pc = "extracted" =>
        brand_and_design =
            <<<<"## BRAND GUIDELINES", 0>>, NL, NL>>
            \o PartUpToNextHeading(master_output, BrandResearchHeader)
            \o <<NL, NL, <<"---", 0>>, NL, NL, <<"## DESIGN SYSTEM", 0>>, NL, NL>>
            \o PartUpToNextHeading(master_output, DesignSystemHeader)
            \o <<NL>>

\* The document up to the heading of the detailed specifications, for the
\* four section texts.
ExpectedHead(exec, brand, arch, design) ==
    <<DocumentTitle, Rule, ExecSummaryHeader>> \o exec
    \o <<Rule, BrandResearchHeader>> \o brand
    \o <<Rule, DeckArchitectureHeader>> \o arch
    \o <<Rule, DesignSystemHeader>> \o design
    \o <<Rule, DetailedSpecsHeader>>

\* C28: whatever sections the planning output holds and in whatever order,
\* the document starts with the four headings in the order executive summary,
\* brand research, deck architecture, design system, each followed by the
\* text its section gives, which is empty when the planning output lacks the
\* section; the blocks of all the units come after these.
C28_FixedSectionOrder ==
    pc = "save_results" =>
        LET text == master_output
            head == ExpectedHead(
                        PartUpToNextHeading(text, ExecSummaryHeader),
                        ExpectedPart(text, BrandResearchHeader, DeckArchitectureHeader),
                        ExpectedPart(text, DeckArchitectureHeader, DesignSystemHeader),
                        ExpectedPart(text, DesignSystemHeader, SlideBriefsHeader))
        IN  /\ Len(final_document) >= Len(head)
            /\ SubSeq(final_document, 1, Len(head)) = head
            /\ \A h \in SectionHeaders :
                  MarkerPositions(text, h) = {} =>
                      \E k \in 1..(Len(head) - 1) :
                          /\ head[k] = h
                          /\ head[k + 1] = Rule
            /\ Len(ParseBlocks(SubSeq(final_document, Len(head) + 1,
                                      Len(final_document) - 5)))
                  = Len(slide_results)

\* The document of a planning output that has the design system before the
\* brand research and no deck architecture, with units.
C28_Witness ==
    /\ pc = "save_results"
    /\ MarkerPositions(master_output, DeckArchitectureHeader) = {}
    /\ \E j \in MarkerPositions(master_output, DesignSystemHeader) :
          \E k \in MarkerPositions(master_output, BrandResearchHeader) : j < k
    /\ Len(slide_results) >= 1

\* C29: whatever the results are, the document ends with the production
\* notes and the closing line, the heading of the production notes occurs
\* once in it, and between the heading of the detailed specifications and the
\* production notes there is one well-formed block per result, an error block
\* with the slide number for a failed one.
C29_NeverTruncated ==
    pc = "save_results" =>
        LET doc == final_document
            notes == {k \in 1..Len(doc) : doc[k] = ProductionNotesHeader}
            specs == {k \in 1..Len(doc) : doc[k] = DetailedSpecsHeader}
        IN  /\ Cardinality(notes) = 1
            /\ Cardinality(specs) = 1
            /\ \A q \in notes :
                  /\ q = Len(doc) - 2
                  /\ doc[q - 1] = Rule /\ doc[q + 1] = Rule
                  /\ doc[Len(doc)] = GeneratedWith
                  /\ \A d \in specs :
                        LET blocks == ParseBlocks(SubSeq(doc, d + 1, q - 3))
                        IN  /\ d < q
                            /\ Len(blocks) = Len(slide_results)
                            /\ \A k \in 1..Len(blocks) :
                                  /\ blocks[k].kind # "malformed"
                                  /\ k <= Len(slide_results) =>
                                        IF slide_results[k].success
                                        THEN blocks[k].kind = "output"
                                        ELSE /\ blocks[k].kind = "error"
                                             /\ blocks[k].slide
                                                   = slide_results[k].slide_number

\* The document of two failed results with the same slide number, 3.
C29_Witness ==
    /\ pc = "save_results"
    /\ Len(slide_results) = 2
    /\ \A k \in 1..2 : ~slide_results[k].success /\ slide_results[k].slide_number = 3

\* The event type in force at line k of the stream: that of the nearest event
\* line before it, Unbound when there is none.
EventTypeAt(lines, k) ==
    LET before == {j \in 1..(k - 1) : lines[j].kind = "event"}
    IN  IF before = {} THEN Unbound
        ELSE lines[CHOOSE j \in before : \A i \in before : i <= j].type

\* The places of the stream where a 'complete' event carries JSON data that
\* is not empty.
CompleteEvents(lines) ==
    {k \in 1..Len(lines) :
        /\ lines[k].kind = "data"
        /\ lines[k].payload.json
        /\ lines[k].payload.type # "null"
        /\ lines[k].payload # JsonObject(EmptyObject)
        /\ EventTypeAt(lines, k) = "complete"}

\* C31: create_presentation never raises: whatever the backend does
\* (requests.post raising, a status other than 200, a stream of any lines, a
\* stream that breaks), it returns a dict whose status is 'success' or
\* 'error'.  The status is 'success' only if the response status was 200 and
\* a 'complete' event with non-empty JSON data was received, and the returned
\* response and metadata are then those of the last such event.
C31_NeverRaises ==
    pc = "returned" =>
        /\ ~result.raised
        /\ result.value.status \in {"success", "error"}
        /\ result.value.status = "success" =>
              /\ response.kind = "http"
              /\ response.status_code = 200
              /\ CompleteEvents(response.lines) # {}
              /\ \A k \in CompleteEvents(response.lines) :
                    (\A j \in CompleteEvents(response.lines) : j <= k) =>
                        LET data == response.lines[k].payload.object
                        IN  /\ result.value.response
                                  = IF data.response = AbsentKey
                                    THEN <<"Presentation generated successfully!", 0>>
                                    ELSE data.response
                            /\ result.value.summary.executionTime
                                  = data.metadata.totalExecutionTime

\* Two 'complete' payloads with different responses were received and the
\* call succeeded with the second one's response.
C31_Witness ==
    /\ pc = "returned"
    /\ ~result.raised
    /\ result.value.status = "success"
    /\ Cardinality(CompleteEvents(response.lines)) = 2
    /\ response.lines[2].payload = JsonObject(Presentation(1))
    /\ response.lines[3].payload = JsonObject(Presentation(2))
    /\ result.value.response = <<"presentation", 2>>
====
